---- MODULE Spec2Model ----
(***************************************************************************)
(* A model of carddeck-creator: the CardDeck class (carddeck.py), which    *)
(* batches a table of records into fixed-size pages of cards and renders   *)
(* them, and the SpotifyGateway class (spotify_gateway.py), which pages    *)
(* through a playlist and extracts one record per playlist item.           *)
(*                                                                         *)
(* Python values are modelled as follows.  A list is a sequence, a dict a  *)
(* function on its keys, a str of a file name a sequence of one-character  *)
(* strings, a DataFrame a sequence of rows (CardDeck) or a record of       *)
(* equally long columns (SpotifyGateway).  An exception that leaves a      *)
(* method is a control state "raised" with the exception's name.           *)
(***************************************************************************)
EXTENDS Integers, Sequences, FiniteSets, TLC

\* ---------------------------------------------------------------- bounds
MaxRecords == 4      \* rows of the table handed to CardDeck
MaxBatchSize == 3    \* batch_size ranges over 1..MaxBatchSize
MaxFields == 2       \* length of content_columns and of template_fields
MaxPages == 2        \* pages of the playlist
MaxItems == 3        \* items of the playlist, over all its pages
MaxMalformed == 2    \* items of the playlist that are malformed when fetched
MaxSongs == 2        \* rows of the playlist that main.py postprocesses
MinYear == 1900      \* the years handed to find_epoch range over MinYear..MaxYear
MaxYear == 2030

VARIABLES
  \* CardDeck object and the locals of its methods
  d_pc,              \* position in CardDeck.__init__ / __batch_data / create_cards
  d_exc,             \* the exception that left the method, "none" if none
  data,              \* self.data: the rows of the DataFrame
  content_columns,   \* self.content_columns
  template_fields,   \* self.template_fields
  batch_size,        \* self.batch_size
  n_batches,         \* self.n_batches (0 before it is assigned)
  batched_data,      \* local batched_data of __batch_data
  batches,           \* local batches of __batch_data
  self_batches,      \* self.batches: <<>> while the attribute is not set, else <<batches>>
  filename,          \* argument of create_cards
  output,            \* output_from_parsed_template: <<>> before render, else <<text>>
  page,              \* the output file: <<>> while never opened, else <<content>>
  \* the metadata source (the playlist behind spotipy)
  source,            \* the pages: each [items: item ids, next: continuation signal]
  shape,             \* item id -> what navigating the item met when it was fetched
  healed,            \* the items that have become well-formed since
  \* SpotifyGateway object and the locals of its methods
  g_pc,              \* position in get_playlist_metadata and the methods it calls
  g_exc,             \* the exception that left the method, "none" if none
  fetched,           \* the page requests sent so far, as page indices
  response,          \* local response: index of the page it holds, 0 for none
  items,             \* local items (the list self.api_response['items'])
  n_tracks,          \* local n_tracks
  g_data,            \* local data: key -> list
  counter,           \* local counter
  error,             \* local error: "None" or the name of the exception caught
  idx,               \* items of the current pass already handled by the for loop
  playlist,          \* self.playlist: <<>> while the attribute is not set, else <<table>>
  passes,            \* passes started so far (progress bars opened with iteration 0)
  slept,             \* seconds of backoff asked of time.sleep so far
  \* the main script: its postprocessing and the DataFrame objects it holds
  m_pc,              \* position in the postprocessing part of main.py
  m_exc,             \* the exception that ended the script, "none" if none
  heap,              \* the DataFrame objects: reference -> [cols, rows]
  m_playlist,        \* the object the name playlist of main.py is bound to (0: unbound)
  SONG_TO_CONTRIBUTOR,  \* override table: song title -> contributor id
  ID_TO_NAME,           \* override table: contributor id -> display name
  SONG_TO_YEAR          \* override table: lower-case song title -> release year

deckVars == <<d_pc, d_exc, data, content_columns, template_fields, batch_size,
              n_batches, batched_data, batches, self_batches, filename, output, page>>

gwVars == <<source, shape, healed, g_pc, g_exc, fetched, response, items, n_tracks,
            g_data, counter, error, idx, playlist, passes, slept>>

postVars == <<m_pc, m_exc, heap, m_playlist, SONG_TO_CONTRIBUTOR, ID_TO_NAME, SONG_TO_YEAR>>

vars == <<deckVars, gwVars, postVars>>

\* ------------------------------------------------------- Python helpers
Min(a, b) == IF a < b THEN a ELSE b

\* int(np.ceil(n / b)) for n >= 0, b >= 1
Ceil(n, b) == IF n % b = 0 THEN n \div b ELSE (n \div b) + 1

\* d[k] = v on a dict
DictSet(d, k, v) == [x \in (DOMAIN d) \cup {k} |-> IF x = k THEN v ELSE d[x]]

\* {} : the dict without keys
EmptyDict == <<>>

\* seq[i:j] of Python (0-based, j exclusive, clipped to the length)
Slice(seq, i, j) == SubSeq(seq, i + 1, Min(j, Len(seq)))

\* range(0, n, step) as a sequence of start offsets
RangeStep(n, step) == [k \in 1..Ceil(n, step) |-> (k - 1) * step]

UpperCase == <<"A","B","C","D","E","F","G","H","I","J","K","L","M",
               "N","O","P","Q","R","S","T","U","V","W","X","Y","Z">>
LowerCase == <<"a","b","c","d","e","f","g","h","i","j","k","l","m",
               "n","o","p","q","r","s","t","u","v","w","x","y","z">>

\* str.lower(), character by character
LowerChar(c) ==
  IF \E i \in 1..Len(UpperCase) : UpperCase[i] = c
    THEN LowerCase[CHOOSE i \in 1..Len(UpperCase) : UpperCase[i] = c]
    ELSE c

Lower(s) == [i \in 1..Len(s) |-> LowerChar(s[i])]

\* str.endswith(suffix)
EndsWith(s, suffix) ==
  /\ Len(s) >= Len(suffix)
  /\ SubSeq(s, Len(s) - Len(suffix) + 1, Len(s)) = suffix

HtmlExt == <<".", "h", "t", "m", "l">>

\* ------------------------------------------------- the metadata source
\* The continuation signal of a page, read as response['next']: the URL of the
\* next page, or None, or '' when there is none; "absent" is a page that has no
\* key 'next' at all.
Signals == {"url", "None", "empty", "absent"}

\* 'next' in response: reading response['next'] of a page without the key raises
HasNext(sig) == sig # "absent"

\* bool(response['next'])
Truthy(sig) == sig \notin {"None", "empty"}

\* What navigating an item meets: the fixed shape, or a node that is None, or a
\* node that is missing.
Shapes == {"ok", "track_none", "album_none", "album_missing", "artists_empty"}

\* the 1-based position, in keys, of the first value that cannot be read (7: none)
FailAt(tag) ==
  CASE tag = "track_none" -> 2       \* item['track'] is None
    [] tag = "artists_empty" -> 3    \* item['track']['artists'] is []
    [] tag = "album_none" -> 4       \* item['track']['album'] is None
    [] tag = "album_missing" -> 4    \* item['track'] has no key 'album'
    [] OTHER -> 7

\* the exception the failing read raises
RaisedBy(tag) ==
  CASE tag = "track_none" -> "TypeError"
    [] tag = "album_none" -> "TypeError"
    [] tag = "album_missing" -> "KeyError:album"
    [] tag = "artists_empty" -> "IndexError"
    [] OTHER -> "none"

RECURSIVE SumTo(_, _)
SumTo(k, q) == IF q = 0 THEN 0 ELSE k[q] + SumTo(k, q - 1)

\* page sizes k[1..p], of at most MaxItems items in all
PageSizes ==
  {k \in UNION {[1..p -> 0..MaxItems] : p \in 1..MaxPages} : SumTo(k, Len(k)) <= MaxItems}

\* The playlists: a chain of pages of any sizes, every page but the last pointing
\* to the next one; the items are numbered through in the order of the chain.
Playlists ==
  {[q \in 1..Len(kl[1]) |->
      [items |-> [j \in 1..kl[1][q] |-> SumTo(kl[1], q - 1) + j],
       next |-> IF q < Len(kl[1]) THEN "url" ELSE kl[2]]]
   : kl \in PageSizes \X (Signals \ {"url"})}

RECURSIVE AllItems(_, _)
AllItems(src, q) == IF q = 0 THEN <<>> ELSE AllItems(src, q - 1) \o src[q].items

\* the shapes of n items, at most MaxMalformed of them malformed
ShapesOf(n) ==
  {f \in [1..n -> Shapes] : Cardinality({id \in 1..n : f[id] # "ok"}) <= MaxMalformed}

\* the values an item carries
TrackName(id) == <<"name", id>>
Artists(id) == << <<"artist", id, 1>>, <<"artist", id, 2>> >>
ReleaseDate(id) == <<"release_date", id>>
AddedById(id) == <<"added_by", id>>
TrackUri(id) == <<"uri", id>>

\* ----------------------------------------------------- SpotifyGateway
max_iterations == 5

Keys == <<"number", "song", "artist", "release_date", "contributor_id", "track_uri">>
KeySet == {Keys[k] : k \in 1..Len(Keys)}
KeyIndex(key) == CHOOSE k \in 1..Len(Keys) : Keys[k] = key

\* data = {key: [] for key in keys}
EmptyData == [key \in KeySet |-> <<>>]

\* enumerate(items, 0): the count starts at 0
Position_fromZero(done) == done

\* enumerate(items, 1): the number of the item after `done` items
Position(done) == done + 1

\* the value appended to data[Keys[k]] for the item id at position pos
ReadValue(k, pos, id) ==
  CASE k = 1 -> pos
    [] k = 2 -> TrackName(id)
    [] k = 3 -> Artists(id)[1]
    [] k = 4 -> ReleaseDate(id)
    [] k = 5 -> AddedById(id)
    [] k = 6 -> TrackUri(id)

\* a row that is appended only when all of its values could be read
AppendItem_atomic(d, pos, id, tag) ==
  [key \in DOMAIN d |->
     IF FailAt(tag) = 7 THEN Append(d[key], ReadValue(KeyIndex(key), pos, id)) ELSE d[key]]

\* the six data[...].append(...) of the try block, each appending as soon as its
\* value is read, up to the first read that raises
AppendItem(d, pos, id, tag) ==
  [key \in DOMAIN d |->
     IF KeyIndex(key) < FailAt(tag)
       THEN Append(d[key], ReadValue(KeyIndex(key), pos, id))
       ELSE d[key]]

\* items = response['items'] of the next page, replacing the list
Extend_replace(list, more) == more

\* items.extend(response['items'])
Extend(list, more) == list \o more

\* the loop also runs with counter = max_iterations
MoreAttempts_inclusive(c) == c <= max_iterations

\* while counter < max_iterations
MoreAttempts(c) == c < max_iterations

\* time.sleep(5) between two passes
BackoffSeconds == 5

\* pd.DataFrame(data=data) needs lists of one length ("All arrays must be of the same length")
SameLength(d) == \A k1, k2 \in DOMAIN d : Len(d[k1]) = Len(d[k2])

\* print_progress_bar divides by total: 100 * (iteration / float(total))
ProgressBarRaises(total) == total = 0

\* the shape navigating an item meets now
CurrentShape(id) == IF id \in healed THEN "ok" ELSE shape[id]

\* code_urls and code_files of __create_spotify_codes
CodeUrls(uris) == [j \in 1..Len(uris) |-> <<"code_url", uris[j]>>]
CodeFiles(uris) == [j \in 1..Len(uris) |-> <<"png", j>>]

GatewayIdle ==
  /\ source = <<>>
  /\ shape = <<>>
  /\ healed = {}
  /\ g_pc = "idle"
  /\ g_exc = "none"
  /\ fetched = <<>>
  /\ response = 0
  /\ items = <<>>
  /\ n_tracks = 0
  /\ g_data = EmptyData
  /\ counter = 0
  /\ error = "None"
  /\ idx = 0
  /\ playlist = <<>>
  /\ passes = 0
  /\ slept = 0

PostIdle ==
  /\ m_pc = "idle"
  /\ m_exc = "none"
  /\ heap = <<>>
  /\ m_playlist = 0
  /\ SONG_TO_CONTRIBUTOR = EmptyDict
  /\ ID_TO_NAME = EmptyDict
  /\ SONG_TO_YEAR = EmptyDict

DeckIdle ==
  /\ d_pc = "idle"
  /\ d_exc = "none"
  /\ data = <<>>
  /\ content_columns = <<>>
  /\ template_fields = <<>>
  /\ batch_size = 1
  /\ n_batches = 0
  /\ batched_data = <<>>
  /\ batches = <<>>
  /\ self_batches = <<>>
  /\ filename = <<>>
  /\ output = <<>>
  /\ page = <<>>

InitGateway ==
  /\ source \in Playlists
  /\ shape \in ShapesOf(Len(AllItems(source, Len(source))))
  /\ healed = {}
  /\ g_pc = "start"
  /\ g_exc = "none"
  /\ fetched = <<>>
  /\ response = 0
  /\ items = <<>>
  /\ n_tracks = 0
  /\ g_data = EmptyData
  /\ counter = 0
  /\ error = "None"
  /\ idx = 0
  /\ playlist = <<>>
  /\ passes = 0
  /\ slept = 0
  /\ DeckIdle
  /\ PostIdle

\* get_playlist_metadata calls __query_playlist: the first page is requested
query_playlist ==
  /\ g_pc = "start"
  /\ fetched' = Append(fetched, 1)
  /\ response' = 1
  /\ g_pc' = "extract"
  /\ UNCHANGED <<source, shape, healed, g_exc, items, n_tracks, g_data, counter, error,
                 idx, playlist>>
  /\ UNCHANGED <<passes, slept>>
  /\ UNCHANGED <<deckVars, postVars>>

\* __extract_metadata_from_response: response = self.api_response; items = response['items']
extract_begin ==
  /\ g_pc = "extract"
  /\ items' = source[response].items
  /\ g_pc' = "paging"
  /\ UNCHANGED <<source, shape, healed, g_exc, fetched, response, n_tracks, g_data,
                 counter, error, idx, playlist>>
  /\ UNCHANGED <<passes, slept>>
  /\ UNCHANGED <<deckVars, postVars>>

\* while response['next']: response = self.spotify.next(response); items.extend(...)
next_page ==
  /\ g_pc = "paging"
  /\ HasNext(source[response].next)
  /\ Truthy(source[response].next)
  /\ fetched' = Append(fetched, response + 1)
  /\ response' = response + 1
  /\ items' = Extend(items, source[response + 1].items)
  /\ UNCHANGED <<source, shape, healed, g_pc, g_exc, n_tracks, g_data, counter, error,
                 idx, playlist>>
  /\ UNCHANGED <<passes, slept>>
  /\ UNCHANGED <<deckVars, postVars>>

\* the while loop ends; n_tracks = len(items); data = {key: []}; counter = 0
paging_end ==
  /\ g_pc = "paging"
  /\ HasNext(source[response].next)
  /\ ~Truthy(source[response].next)
  /\ n_tracks' = Len(items)
  /\ g_data' = EmptyData
  /\ counter' = 0
  /\ g_pc' = "while"
  /\ UNCHANGED <<source, shape, healed, g_exc, fetched, response, items, error, idx, playlist>>
  /\ UNCHANGED <<passes, slept>>
  /\ UNCHANGED <<deckVars, postVars>>

\* the test response['next'] of the while loop on a page without the key
paging_key_error ==
  /\ g_pc = "paging"
  /\ ~HasNext(source[response].next)
  /\ g_pc' = "raised"
  /\ g_exc' = "KeyError:next"
  /\ UNCHANGED <<source, shape, healed, fetched, response, items, n_tracks, g_data,
                 counter, error, idx, playlist>>
  /\ UNCHANGED <<passes, slept>>
  /\ UNCHANGED <<deckVars, postVars>>

\* while counter < max_iterations: error = None; print_progress_bar(0, n_tracks)
pass_start ==
  /\ g_pc = "while"
  /\ IF MoreAttempts(counter)
       THEN /\ error' = "None"
            /\ idx' = 0
            /\ passes' = passes + 1
            /\ IF ProgressBarRaises(n_tracks)
                 THEN g_pc' = "raised" /\ g_exc' = "ZeroDivisionError"
                 ELSE g_pc' = "for" /\ g_exc' = g_exc
       ELSE /\ g_pc' = "frame"
            /\ UNCHANGED <<error, idx, g_exc, passes>>
  /\ UNCHANGED <<source, shape, healed, fetched, response, items, n_tracks, g_data,
                 counter, playlist, slept>>
  /\ UNCHANGED <<deckVars, postVars>>

\* one turn of "for i, item in enumerate(items, 1)": the appends of the try block;
\* a TypeError is caught, recorded and ends the loop, any other exception leaves
\* the method
extract_item ==
  /\ g_pc = "for"
  /\ idx < Len(items)
  /\ LET id == items[idx + 1]
         tag == CurrentShape(id)
     IN /\ g_data' = AppendItem(g_data, Position(idx), id, tag)
        /\ CASE RaisedBy(tag) = "none" ->
                  /\ idx' = idx + 1
                  /\ UNCHANGED <<g_pc, g_exc, error>>
             [] RaisedBy(tag) = "TypeError" ->
                  /\ error' = "TypeError"
                  /\ g_pc' = "after_for"
                  /\ UNCHANGED <<idx, g_exc>>
             [] OTHER ->
                  /\ g_pc' = "raised"
                  /\ g_exc' = RaisedBy(tag)
                  /\ UNCHANGED <<idx, error>>
  /\ UNCHANGED <<source, shape, healed, fetched, response, items, n_tracks, counter, playlist>>
  /\ UNCHANGED <<passes, slept>>
  /\ UNCHANGED <<deckVars, postVars>>

\* the for loop has run through all items
for_end ==
  /\ g_pc = "for"
  /\ idx = Len(items)
  /\ g_pc' = "after_for"
  /\ UNCHANGED <<source, shape, healed, g_exc, fetched, response, items, n_tracks, g_data,
                 counter, error, idx, playlist>>
  /\ UNCHANGED <<passes, slept>>
  /\ UNCHANGED <<deckVars, postVars>>

\* if error is None: break; else: print(...); time.sleep(5)
pass_end ==
  /\ g_pc = "after_for"
  /\ IF error = "None"
       THEN g_pc' = "frame" /\ slept' = slept
       ELSE g_pc' = "sleep" /\ slept' = slept + BackoffSeconds
  /\ UNCHANGED <<source, shape, healed, g_exc, fetched, response, items, n_tracks, g_data,
                 counter, error, idx, playlist, passes>>
  /\ UNCHANGED <<deckVars, postVars>>

\* The metadata source settles while the gateway sleeps: an item that was
\* malformed has the fixed shape the next time it is navigated.
settle ==
  /\ g_pc = "sleep"
  /\ \E id \in (DOMAIN shape) \ healed :
       /\ shape[id] # "ok"
       /\ healed' = healed \cup {id}
  /\ UNCHANGED <<source, shape, g_pc, g_exc, fetched, response, items, n_tracks, g_data,
                 counter, error, idx, playlist>>
  /\ UNCHANGED <<passes, slept>>
  /\ UNCHANGED <<deckVars, postVars>>

\* the retry queries the playlist again before its pass
wake_refetch ==
  /\ g_pc = "sleep"
  /\ counter' = counter + 1
  /\ g_pc' = "while"
  /\ fetched' = Append(fetched, 1)
  /\ UNCHANGED <<source, shape, healed, g_exc, response, items, n_tracks, g_data,
                 error, idx, playlist>>
  /\ UNCHANGED <<passes, slept>>
  /\ UNCHANGED <<deckVars, postVars>>

\* time.sleep(5) returns; counter += 1
wake ==
  /\ g_pc = "sleep"
  /\ counter' = counter + 1
  /\ g_pc' = "while"
  /\ UNCHANGED <<source, shape, healed, g_exc, fetched, response, items, n_tracks, g_data,
                 error, idx, playlist>>
  /\ UNCHANGED <<passes, slept>>
  /\ UNCHANGED <<deckVars, postVars>>

\* self.playlist = pd.DataFrame(data=data); return
make_frame ==
  /\ g_pc = "frame"
  /\ IF SameLength(g_data)
       THEN /\ playlist' = <<g_data>>
            /\ g_pc' = "codes"
            /\ g_exc' = g_exc
       ELSE /\ playlist' = playlist
            /\ g_pc' = "raised"
            /\ g_exc' = "ValueError"
  /\ UNCHANGED <<source, shape, healed, fetched, response, items, n_tracks, g_data,
                 counter, error, idx>>
  /\ UNCHANGED <<passes, slept>>
  /\ UNCHANGED <<deckVars, postVars>>

\* __create_spotify_codes: one code image is retrieved per track, then the two
\* columns are added; the progress bar and the retrieval may raise
create_spotify_codes ==
  /\ g_pc = "codes"
  /\ \/ /\ ProgressBarRaises(Len(playlist[1]["number"]))
        /\ g_pc' = "raised"
        /\ g_exc' = "ZeroDivisionError"
        /\ playlist' = playlist
     \/ /\ ~ProgressBarRaises(Len(playlist[1]["number"]))
        /\ g_pc' = "raised"
        /\ g_exc' = "URLError"
        /\ playlist' = playlist
     \/ /\ ~ProgressBarRaises(Len(playlist[1]["number"]))
        /\ g_pc' = "done"
        /\ g_exc' = g_exc
        /\ playlist' = <<DictSet(DictSet(playlist[1],
                                         "code_url", CodeUrls(playlist[1]["track_uri"])),
                                 "code_file", CodeFiles(playlist[1]["track_uri"]))>>
  /\ UNCHANGED <<source, shape, healed, fetched, response, items, n_tracks, g_data,
                 counter, error, idx>>
  /\ UNCHANGED <<passes, slept>>
  /\ UNCHANGED <<deckVars, postVars>>

NextGateway ==
  \/ query_playlist
  \/ extract_begin
  \/ next_page
  \/ paging_end
  \/ paging_key_error
  \/ pass_start
  \/ extract_item
  \/ for_end
  \/ pass_end
  \/ settle
  \/ wake
  \/ make_frame
  \/ create_spotify_codes

SpecGateway == InitGateway /\ [][NextGateway]_vars

\* ------------------------------------------------------ CardDeck inputs
Columns == {"song", "number"}
Fields == {"text1", "text2"}
Digits == <<"0", "1", "2", "3", "4", "5", "6", "7", "8", "9">>
Str(i) == Digits[i + 1]

SeqsUpTo(S, n) == UNION {[1..k -> S] : k \in 0..n}

\* The tables handed to CardDeck: row i carries its position as 'number' (as
\* the gateway numbers its records) and a song title, which may be empty.
Tables ==
  UNION {{[i \in 1..n |-> [number |-> Str(i), song |-> t[i]]] : t \in [1..n -> {"", "s"}]}
         : n \in 0..MaxRecords}

Filenames ==
  { <<"c", ".", "h", "t", "m", "l">>,
    <<"C", ".", "H", "T", "M", "L">>,
    <<"c", ".", "H", "t", "m", "l">>,
    <<".", "h", "t", "m", "l">>,
    <<"c", ".", "t", "x", "t">>,
    <<"c", ".", "h", "t", "m">>,
    <<"c", ".", "h", "t", "m", "l", ".", "t", "x", "t">>,
    <<"h", "t", "m", "l">>,
    <<>> }

\* --------------------------------------------------- CardDeck.__batch_data
\* the inner loop over enumerate(self.template_fields): card_content[field] = row[...]
RECURSIVE card_content_loop(_, _, _, _, _)
card_content_loop(card, row, cc, tf, i) ==
  IF i > Len(tf) THEN card
  ELSE card_content_loop(DictSet(card, tf[i], row[cc[i]]), row, cc, tf, i + 1)

\* a card built with "first assignment wins" (dict.setdefault) instead of d[k] = v
RECURSIVE card_content_loop_first(_, _, _, _, _)
card_content_loop_first(card, row, cc, tf, i) ==
  IF i > Len(tf) THEN card
  ELSE card_content_loop_first(
         IF tf[i] \in DOMAIN card THEN card ELSE DictSet(card, tf[i], row[cc[i]]),
         row, cc, tf, i + 1)

BuildCard_firstWins(row, cc, tf) == card_content_loop_first(EmptyDict, row, cc, tf, 1)

BuildCard(row, cc, tf) == card_content_loop(EmptyDict, row, cc, tf, 1)

\* the loop over batch.iterrows(): one card per row, appended in row order
CardBatch(batch, cc, tf) == [j \in 1..Len(batch) |-> BuildCard(batch[j], cc, tf)]

\* chunks taken from the last one to the first
SplitData_reversed(d, b) ==
  [k \in 1..Len(RangeStep(Len(d), b)) |->
     Slice(d, RangeStep(Len(d), b)[Len(RangeStep(Len(d), b)) + 1 - k],
              RangeStep(Len(d), b)[Len(RangeStep(Len(d), b)) + 1 - k] + b)]

\* [self.data[i:i+batch_size] for i in range(0, len(self.data), batch_size)]
SplitData(d, b) ==
  [k \in 1..Len(RangeStep(Len(d), b)) |->
     Slice(d, RangeStep(Len(d), b)[k], RangeStep(Len(d), b)[k] + b)]

\* empty_card_content: every template field set to ''
RECURSIVE empty_card_loop(_, _, _)
empty_card_loop(card, tf, i) ==
  IF i > Len(tf) THEN card ELSE empty_card_loop(DictSet(card, tf[i], ""), tf, i + 1)

EmptyCard(tf) == empty_card_loop(EmptyDict, tf, 1)

\* padding that stops one card short: range(batch_size - len(batches[-1]) - 1)
PadLast_short(bs, b, tf) ==
  IF Len(bs[Len(bs)]) < b
    THEN [bs EXCEPT ![Len(bs)] =
            @ \o [j \in 1..(b - Len(bs[Len(bs)]) - 1) |-> EmptyCard(tf)]]
    ELSE bs

\* if len(batches[-1]) < batch_size: append batch_size - len(batches[-1]) empty cards
PadLast(bs, b, tf) ==
  IF Len(bs[Len(bs)]) < b
    THEN [bs EXCEPT ![Len(bs)] =
            @ \o [j \in 1..(b - Len(bs[Len(bs)])) |-> EmptyCard(tf)]]
    ELSE bs

\* no check of the two lengths at all
LengthsMatch_unchecked(cc, tf) == TRUE

\* the check of __init__ on the two mapping lists
LengthsMatch(cc, tf) == Len(cc) = Len(tf)

\* the extension compared without lower()
HasHtmlExtension_caseSensitive(fn) == EndsWith(fn, HtmlExt)

\* the check of create_cards on the file name
HasHtmlExtension(fn) == EndsWith(Lower(fn), HtmlExt)

\* ------------------------------------------------------------- CardDeck
InitDeck ==
  /\ d_pc = "new"
  /\ d_exc = "none"
  /\ data \in Tables
  /\ content_columns \in SeqsUpTo(Columns, MaxFields)
  /\ template_fields \in SeqsUpTo(Fields, MaxFields)
  /\ batch_size \in 1..MaxBatchSize
  /\ n_batches = 0
  /\ batched_data = <<>>
  /\ batches = <<>>
  /\ self_batches = <<>>
  /\ filename = <<>>
  /\ output = <<>>
  /\ page = <<>>
  /\ GatewayIdle
  /\ PostIdle

\* __init__ up to the call of __batch_data
CardDeck_init ==
  /\ d_pc = "new"
  /\ n_batches' = Ceil(Len(data), batch_size)
  /\ IF LengthsMatch(content_columns, template_fields)
       THEN d_pc' = "split" /\ d_exc' = d_exc
       ELSE d_pc' = "raised" /\ d_exc' = "ValueError:lengths"
  /\ UNCHANGED <<data, content_columns, template_fields, batch_size, batched_data,
                 batches, self_batches, filename, output, page>>
  /\ UNCHANGED <<gwVars, postVars>>

\* __batch_data: split the DataFrame into chunks, batches = []
batch_data_split ==
  /\ d_pc = "split"
  /\ batched_data' = SplitData(data, batch_size)
  /\ batches' = <<>>
  /\ d_pc' = "loop"
  /\ UNCHANGED <<d_exc, data, content_columns, template_fields, batch_size, n_batches,
                 self_batches, filename, output, page>>
  /\ UNCHANGED <<gwVars, postVars>>

\* __batch_data: one turn of "for batch in batched_data"
batch_data_loop ==
  /\ d_pc = "loop"
  /\ Len(batches) < Len(batched_data)
  /\ batches' = Append(batches,
                       CardBatch(batched_data[Len(batches) + 1], content_columns, template_fields))
  /\ UNCHANGED <<d_pc, d_exc, data, content_columns, template_fields, batch_size, n_batches,
                 batched_data, self_batches, filename, output, page>>
  /\ UNCHANGED <<gwVars, postVars>>

\* __batch_data: the padding of batches[-1]; batches[-1] of an empty list raises
batch_data_pad ==
  /\ d_pc = "loop"
  /\ Len(batches) = Len(batched_data)
  /\ IF Len(batches) = 0
       THEN /\ d_pc' = "raised"
            /\ d_exc' = "IndexError"
            /\ batches' = batches
       ELSE /\ d_pc' = "store"
            /\ d_exc' = d_exc
            /\ batches' = PadLast(batches, batch_size, template_fields)
  /\ UNCHANGED <<data, content_columns, template_fields, batch_size, n_batches,
                 batched_data, self_batches, filename, output, page>>
  /\ UNCHANGED <<gwVars, postVars>>

\* __batch_data: self.batches = batches, and the return of __init__
batch_data_store ==
  /\ d_pc = "store"
  /\ self_batches' = <<batches>>
  /\ d_pc' = "ready"
  /\ UNCHANGED <<d_exc, data, content_columns, template_fields, batch_size, n_batches,
                 batched_data, batches, filename, output, page>>
  /\ UNCHANGED <<gwVars, postVars>>

\* create_cards: the check of the file extension
create_cards_check ==
  /\ d_pc = "ready"
  /\ \E fn \in Filenames :
       /\ filename' = fn
       /\ IF HasHtmlExtension(fn)
            THEN d_pc' = "render" /\ d_exc' = d_exc
            ELSE d_pc' = "raised" /\ d_exc' = "ValueError:extension"
  /\ UNCHANGED <<data, content_columns, template_fields, batch_size, n_batches,
                 batched_data, batches, self_batches, output, page>>
  /\ UNCHANGED <<gwVars, postVars>>

\* create_cards: load the template and render it with batches=self.batches;
\* the template engine may fail (template not found, error in the template)
create_cards_render ==
  /\ d_pc = "render"
  /\ \/ /\ output' = <<self_batches[1]>>
        /\ d_pc' = "write"
        /\ d_exc' = d_exc
     \/ /\ output' = output
        /\ d_pc' = "raised"
        /\ d_exc' = "TemplateError"
  /\ UNCHANGED <<data, content_columns, template_fields, batch_size, n_batches,
                 batched_data, batches, self_batches, filename, page>>
  /\ UNCHANGED <<gwVars, postVars>>

\* create_cards: open(filename, "w") and write the rendered text
create_cards_write ==
  /\ d_pc = "write"
  /\ page' = <<output[1]>>
  /\ d_pc' = "done"
  /\ UNCHANGED <<d_exc, data, content_columns, template_fields, batch_size, n_batches,
                 batched_data, batches, self_batches, filename, output>>
  /\ UNCHANGED <<gwVars, postVars>>

NextDeck ==
  \/ CardDeck_init
  \/ batch_data_split
  \/ batch_data_loop
  \/ batch_data_pad
  \/ batch_data_store
  \/ create_cards_check
  \/ create_cards_render
  \/ create_cards_write

SpecDeck == InitDeck /\ [][NextDeck]_vars

\* ------------------------------------------------ utils: the enrichment
\* A DataFrame object is [cols: the column names in order, rows: one dict per
\* row]; heap maps a reference to the object it names, so that two names bound
\* to one reference are one object.

\* DataFrame.copy(): a new object with the same columns and rows
DataFrame_copy(h, ref) == Append(h, h[ref])

\* df[col] = vals on the object t: col is replaced where it is, else added last
SetColumn(t, col, vals) ==
  [cols |-> IF \E k \in 1..Len(t.cols) : t.cols[k] = col THEN t.cols ELSE Append(t.cols, col),
   rows |-> [i \in 1..Len(t.rows) |-> DictSet(t.rows[i], col, vals[i])]]

\* A release date is its fields between the dashes, as numbers. strptime with a
\* format of n fields ('%Y', '%Y-%m', '%Y-%m-%d') accepts a date of exactly n
\* fields whose month and day are in range, and raises ValueError otherwise.
Matches(date, n) ==
  /\ Len(date) = n
  /\ n >= 2 => date[2] \in 1..12
  /\ n >= 3 => date[3] \in 1..31

\* one of the three formats of extract_release_year accepts the date
Parses(date) == \E n \in 1..3 : Matches(date, n)

\* datetime.strptime(...).year of a date that parses
YearOf(date) == date[1]

find_epoch(year) ==
  IF year > 2019 THEN "2020er"
  ELSE IF year > 2009 THEN "2010er"
  ELSE IF year > 1999 THEN "2000er"
  ELSE IF year > 1989 THEN "90er"
  ELSE IF year > 1979 THEN "80er"
  ELSE IF year > 1969 THEN "70er"
  ELSE IF year > 1959 THEN "60er"
  ELSE IF year > 1949 THEN "50er"
  ELSE IF year < 1949 THEN "Oldies"
  ELSE "None"

\* Each transformation returns [heap: the objects after the call, ret: the
\* reference it returns (0 when it raised), exc: the exception it raised].
modify_song_contributor_id(h, pl, replace_dict, column, modify_column) ==
  LET h1 == DataFrame_copy(h, pl)
      playlist_copy == Len(h1)
      contributor_ids ==
        [i \in 1..Len(h1[pl].rows) |->
           LET row == h1[pl].rows[i]
           IN IF row[column] \in DOMAIN replace_dict
                THEN replace_dict[row[column]]
                ELSE row[modify_column]]
  IN [heap |-> [h1 EXCEPT ![playlist_copy] = SetColumn(@, modify_column, contributor_ids)],
      ret |-> playlist_copy,
      exc |-> "none"]

add_contributor_names(h, pl, replace_dict, column, append_column) ==
  LET h1 == DataFrame_copy(h, pl)
      playlist_copy == Len(h1)
      rows == h1[playlist_copy].rows
  IN IF \E i \in 1..Len(rows) : rows[i][column] \notin DOMAIN replace_dict
       THEN [heap |-> h1, ret |-> 0, exc |-> "KeyError"]
       ELSE [heap |-> [h1 EXCEPT ![playlist_copy] =
                         SetColumn(@, append_column,
                                   [i \in 1..Len(rows) |-> replace_dict[rows[i][column]]])],
             ret |-> playlist_copy,
             exc |-> "none"]

extract_release_year(h, pl, column, append_column) ==
  LET h1 == DataFrame_copy(h, pl)
      playlist_copy == Len(h1)
      rows == h1[playlist_copy].rows
  IN IF \E i \in 1..Len(rows) : ~Parses(rows[i][column])
       THEN [heap |-> h1, ret |-> 0, exc |-> "ValueError"]
       ELSE [heap |-> [h1 EXCEPT ![playlist_copy] =
                         SetColumn(@, append_column,
                                   [i \in 1..Len(rows) |-> YearOf(rows[i][column])])],
             ret |-> playlist_copy,
             exc |-> "none"]

\* the years of modify_release_year: the override of the lower-cased title
\* where there is one, else the release year
original_release_years(rows, replace_dict, release_year_column, song_column) ==
  [i \in 1..Len(rows) |->
     IF Lower(rows[i][song_column]) \in DOMAIN replace_dict
       THEN replace_dict[Lower(rows[i][song_column])]
       ELSE rows[i][release_year_column]]

\* the column is added to the argument itself, and the argument is returned
modify_release_year_inplace(h, pl, replace_dict, release_year_column, song_column, append_column) ==
  [heap |-> [h EXCEPT ![pl] =
               SetColumn(@, append_column,
                         original_release_years(h[pl].rows, replace_dict,
                                                release_year_column, song_column))],
   ret |-> pl,
   exc |-> "none"]

modify_release_year(h, pl, replace_dict, release_year_column, song_column, append_column) ==
  LET h1 == DataFrame_copy(h, pl)
      playlist_copy == Len(h1)
  IN [heap |-> [h1 EXCEPT ![playlist_copy] =
                  SetColumn(@, append_column,
                            original_release_years(h1[playlist_copy].rows, replace_dict,
                                                   release_year_column, song_column))],
      ret |-> playlist_copy,
      exc |-> "none"]

\* ---------------------------------------------- main.py: postprocessing
\* song titles, as strings of characters
Songs == { <<"a">>, <<"B">> }

\* release dates as Spotify gives them, by year, by month or by day, and one
\* that no format accepts
Dates == { <<1949>>, <<1985, 7>>, <<2020, 1, 31>>, <<1985, 13>> }

ContributorIds == {"u1", "u2"}

\* a dict without entries
NoOverrides == [k \in {} |-> k]

\* the columns of spotify_gateway.playlist after get_playlist_metadata
GatewayColumns == Keys \o <<"code_url", "code_file">>

\* row i of spotify_gateway.playlist
GatewayRow(i, song, date, contributor) ==
  [number |-> Str(i), song |-> song, artist |-> <<"artist", i>>, release_date |-> date,
   contributor_id |-> contributor, track_uri |-> <<"uri", i>>,
   code_url |-> <<"url", i>>, code_file |-> <<"png", i>>]

\* The tables get_playlist_metadata can leave in spotify_gateway.playlist: at
\* least one row, since it raises for a playlist without items.
GatewayTables ==
  UNION {{[cols |-> GatewayColumns,
           rows |-> [i \in 1..n |-> GatewayRow(i, f[i][1], f[i][2], f[i][3])]]
          : f \in [1..n -> Songs \X Dates \X ContributorIds]}
         : n \in 1..MaxSongs}

\* the reference of spotify_gateway.playlist
gateway_playlist == 1

InitPost ==
  /\ m_pc = "copy"
  /\ m_exc = "none"
  /\ heap \in {<<t>> : t \in GatewayTables}
  /\ m_playlist = 0
  /\ SONG_TO_CONTRIBUTOR \in {NoOverrides, (<<"a">> :> "u2")}
  /\ ID_TO_NAME \in {("u1" :> "n1") @@ ("u2" :> "n2"), ("u1" :> "n1")}
  /\ SONG_TO_YEAR \in {NoOverrides, (<<"b">> :> 1949)}
  /\ DeckIdle
  /\ GatewayIdle

\* playlist = spotify_gateway.playlist.copy()
main_copy ==
  /\ m_pc = "copy"
  /\ heap' = DataFrame_copy(heap, gateway_playlist)
  /\ m_playlist' = Len(heap')
  /\ m_pc' = "contributor"
  /\ UNCHANGED <<m_exc, SONG_TO_CONTRIBUTOR, ID_TO_NAME, SONG_TO_YEAR>>
  /\ UNCHANGED <<deckVars, gwVars>>

\* playlist = f(playlist=playlist, ...): the name is bound to what f returns;
\* an exception of f ends the script
Rebind(result, next_pc) ==
  /\ heap' = result.heap
  /\ IF result.exc = "none"
       THEN m_playlist' = result.ret /\ m_pc' = next_pc /\ m_exc' = m_exc
       ELSE m_playlist' = m_playlist /\ m_pc' = "raised" /\ m_exc' = result.exc
  /\ UNCHANGED <<SONG_TO_CONTRIBUTOR, ID_TO_NAME, SONG_TO_YEAR>>
  /\ UNCHANGED <<deckVars, gwVars>>

main_modify_song_contributor_id ==
  /\ m_pc = "contributor"
  /\ Rebind(modify_song_contributor_id(heap, m_playlist, SONG_TO_CONTRIBUTOR,
                                       "song", "contributor_id"),
            "names")

main_add_contributor_names ==
  /\ m_pc = "names"
  /\ Rebind(add_contributor_names(heap, m_playlist, ID_TO_NAME,
                                  "contributor_id", "contributor_name"),
            "year")

main_extract_release_year ==
  /\ m_pc = "year"
  /\ Rebind(extract_release_year(heap, m_playlist, "release_date", "release_year"),
            "original")

main_modify_release_year ==
  /\ m_pc = "original"
  /\ Rebind(modify_release_year(heap, m_playlist, SONG_TO_YEAR,
                                "release_year", "song", "original_release_year"),
            "epoch")

\* playlist['epoch'] = [find_epoch(year=year) for year in playlist['original_release_year']]
main_epoch ==
  /\ m_pc = "epoch"
  /\ heap' = [heap EXCEPT ![m_playlist] =
                SetColumn(@, "epoch",
                          [i \in 1..Len(@.rows) |-> find_epoch(@.rows[i]["original_release_year"])])]
  /\ m_pc' = "deck"
  /\ UNCHANGED <<m_exc, m_playlist, SONG_TO_CONTRIBUTOR, ID_TO_NAME, SONG_TO_YEAR>>
  /\ UNCHANGED <<deckVars, gwVars>>

\* card_deck = CardDeck(data=playlist, ...): self.data is the object playlist
\* names; the batch size is set in the script and is an input here
main_CardDeck ==
  /\ m_pc = "deck"
  /\ m_pc' = "batching"
  /\ d_pc = "idle"
  /\ d_pc' = "new"
  /\ data' = heap[m_playlist].rows
  /\ content_columns' = <<"song", "original_release_year", "artist", "contributor_name",
                          "number", "code_file">>
  /\ template_fields' = <<"text1", "text2", "text3", "smallText", "number", "backImage">>
  /\ batch_size' \in 1..MaxBatchSize
  /\ UNCHANGED <<d_exc, n_batches, batched_data, batches, self_batches, filename, output, page>>
  /\ UNCHANGED <<m_exc, heap, m_playlist, SONG_TO_CONTRIBUTOR, ID_TO_NAME, SONG_TO_YEAR>>
  /\ UNCHANGED gwVars

NextPost ==
  \/ main_copy
  \/ main_modify_song_contributor_id
  \/ main_add_contributor_names
  \/ main_extract_release_year
  \/ main_modify_release_year
  \/ main_epoch
  \/ main_CardDeck
  \/ CardDeck_init
  \/ batch_data_split
  \/ batch_data_loop
  \/ batch_data_pad
  \/ batch_data_store

SpecPost == InitPost /\ [][NextPost]_vars

\* find_epoch on its own: the script at the epoch column, with one enriched
\* record of any original release year in MinYear..MaxYear
InitEpoch ==
  /\ m_pc = "epoch"
  /\ m_exc = "none"
  /\ \E y \in MinYear..MaxYear :
       heap = << [cols |-> GatewayColumns \o <<"contributor_name", "release_year",
                                               "original_release_year">>,
                  rows |-> << GatewayRow(1, <<"a">>, <<y>>, "u1") @@
                              [contributor_name |-> "n1", release_year |-> y,
                               original_release_year |-> y] >>] >>
  /\ m_playlist = 1
  /\ SONG_TO_CONTRIBUTOR = NoOverrides
  /\ ID_TO_NAME = ("u1" :> "n1")
  /\ SONG_TO_YEAR = NoOverrides
  /\ DeckIdle
  /\ GatewayIdle

NextEpoch == main_epoch

SpecEpoch == InitEpoch /\ [][NextEpoch]_vars

\* ----------------------------------------------- properties of the enrichment
EraLabels == {"2020er", "2010er", "2000er", "90er", "80er", "70er", "60er", "50er", "Oldies"}

\* C15 (as claimed): find_epoch gives every integer year one of the nine era
\* labels and never None, so that after the epoch column is written every
\* record has an era label.
C15_EveryYearHasEpoch ==
  m_pc = "deck" =>
    \A i \in 1..Len(heap[m_playlist].rows) : heap[m_playlist].rows[i]["epoch"] \in EraLabels

\* a call of one of the four transformations is about to be made
AtTransformation == m_pc \in {"contributor", "names", "year", "original"}

\* C11: a call of modify_song_contributor_id, add_contributor_names,
\* extract_release_year or modify_release_year leaves its input table, and every
\* other table there is, with the columns, rows and values it had, and what it
\* returns is a table that did not exist before the call; while CardDeck batches,
\* the table it was given keeps its columns, rows and values, and the batches
\* are built apart from it.
C11_Step ==
  /\ AtTransformation =>
       /\ \A ref \in 1..Len(heap) : heap'[ref] = heap[ref]
       /\ m_pc' # "raised" =>
            /\ m_playlist' \notin 1..Len(heap)
            /\ m_playlist' \in 1..Len(heap')
  /\ d_pc \in {"new", "split", "loop", "store"} =>
       /\ heap' = heap
       /\ data' = data
       /\ data' = heap'[m_playlist'].rows

C11_InputsUnchanged == [][C11_Step]_vars

C11_Witness ==
  /\ d_pc = "ready"
  /\ Len(data) = 2
  /\ Len(self_batches[1]) = 2
  /\ Len(heap) = 6
  /\ m_playlist = 6
  /\ heap[1].cols = GatewayColumns
  /\ heap[5].rows # heap[4].rows
  /\ heap[3].rows # heap[2].rows

\* ------------------------------------------ properties of SpotifyGateway
\* all items of the playlist, in page order
PlaylistItems == AllItems(source, Len(source))

\* one record per item of its, in order, numbered from 1
ExpectedRecords(its) ==
  [number |-> [p \in 1..Len(its) |-> p],
   song |-> [p \in 1..Len(its) |-> TrackName(its[p])],
   artist |-> [p \in 1..Len(its) |-> Head(Artists(its[p]))],
   release_date |-> [p \in 1..Len(its) |-> ReleaseDate(its[p])],
   contributor_id |-> [p \in 1..Len(its) |-> AddedById(its[p])],
   track_uri |-> [p \in 1..Len(its) |-> TrackUri(its[p])]]

\* self.playlist holds exactly the expected records of its in its six columns
PlaylistIs(its) ==
  /\ playlist # <<>>
  /\ \A key \in {"number", "song", "artist", "release_date", "contributor_id", "track_uri"} :
       playlist[1][key] = ExpectedRecords(its)[key]

\* every item was well-formed when it was fetched
AllWellFormed == \A id \in DOMAIN shape : shape[id] = "ok"

\* __extract_metadata_from_response has returned or raised in pd.DataFrame
ExtractionEnded ==
  \/ g_pc \in {"codes", "done"}
  \/ g_pc = "raised" /\ g_exc \in {"ValueError", "URLError"}

\* C2 (as claimed): when a pass was aborted by a malformed item and a later pass,
\* within max_iterations, found every item well-formed, extraction produces
\* exactly one record per item, numbered 1..n in item order, with nothing left
\* over from the aborted pass.
C2_RetryYieldsAllRecords ==
  (ExtractionEnded /\ counter >= 1 /\ counter < max_iterations /\ error = "None") =>
    PlaylistIs(items)

\* C3: when all max_iterations passes were aborted, the method can only go on
\* to raise (the ValueError of pd.DataFrame) and self.playlist is never set; a
\* playlist that is set is never short of a row.
C3_ExhaustionRaises ==
  /\ counter = max_iterations =>
       /\ g_pc \in {"while", "frame", "raised"}
       /\ g_pc = "raised" => g_exc = "ValueError"
       /\ playlist = <<>>
  /\ playlist # <<>> =>
       \A key \in DOMAIN playlist[1] : Len(playlist[1][key]) = Len(items)

C3_Witness ==
  /\ counter = max_iterations
  /\ error = "TypeError"
  /\ g_pc = "raised"
  /\ g_exc = "ValueError"
  /\ Len(items) >= 2

\* C7 (as claimed): a page is requested exactly while the current page's
\* continuation signal is truthy; paging stops without error at the first page
\* whose signal is falsy or absent, with items the concatenation of the items
\* of all pages in page order.
C7_PagingStopsWithoutError ==
  /\ g_pc \notin {"idle", "start"} =>
       /\ fetched = [q \in 1..response |-> q]
       /\ \A q \in 1..(response - 1) : source[q].next = "url"
  /\ g_pc \notin {"idle", "start", "extract"} =>
       items = AllItems(source, response)
  /\ g_pc \notin {"idle", "start", "extract", "paging"} =>
       /\ source[response].next \in {"None", "empty", "absent"}
       /\ response = Len(source)
       /\ items = PlaylistItems
       /\ g_exc # "KeyError:next"

\* C7 (amended): a page is requested only from a page whose continuation signal
\* is truthy, in chain order and once each; at the first page whose signal is
\* None or '' paging stops without error, and from then on items is the
\* concatenation of the items of all pages in page order, whatever their sizes;
\* at a page that has no 'next' key the method raises KeyError and sets no
\* playlist.
C7_PaginationFollowsSignal ==
  /\ g_pc \notin {"idle", "start"} =>
       /\ fetched = [q \in 1..response |-> q]
       /\ \A q \in 1..(response - 1) : source[q].next = "url"
  /\ g_pc \notin {"idle", "start", "extract"} =>
       items = AllItems(source, response)
  /\ (g_pc \notin {"idle", "start", "extract", "paging"} /\ g_exc # "KeyError:next") =>
       /\ source[response].next \in {"None", "empty"}
       /\ response = Len(source)
       /\ items = PlaylistItems
       /\ n_tracks = Len(PlaylistItems)
  /\ g_exc = "KeyError:next" =>
       /\ source[response].next = "absent"
       /\ g_pc = "raised"
       /\ playlist = <<>>
  /\ (g_pc = "raised" /\ source[response].next \in {"None", "empty"}) =>
       g_exc # "KeyError:next"

C7_Witness ==
  /\ g_pc = "while"
  /\ Len(source) = 2
  /\ Len(source[1].items) = 2
  /\ Len(source[2].items) = 1
  /\ source[2].next = "empty"
  /\ fetched = <<1, 2>>
  /\ items = <<1, 2, 3>>

\* C10: when every item of a playlist of n >= 1 items is well-formed,
\* extraction takes a single pass, never sleeps and does not raise, and yields
\* one record per item in item order, the i-th with number i (its position over
\* all pages) and that item's title, first-listed artist, release date,
\* adding-user id and track reference.
C10_SinglePassAllRecords ==
  (g_pc \notin {"idle", "start", "extract", "paging"} /\ g_exc # "KeyError:next"
     /\ AllWellFormed /\ Len(PlaylistItems) >= 1) =>
    /\ counter = 0
    /\ error = "None"
    /\ g_pc # "sleep"
    /\ g_pc = "raised" => g_exc = "URLError"
    /\ g_pc \in {"codes", "done", "raised"} => PlaylistIs(PlaylistItems)

C10_Witness ==
  /\ g_pc = "codes"
  /\ AllWellFormed
  /\ Len(source) = 2
  /\ Len(source[1].items) = 1
  /\ Len(source[2].items) = 2
  /\ playlist[1]["number"] = <<1, 2, 3>>
  /\ playlist[1]["artist"][3] = <<"artist", 3, 1>>

\* the passes have begun: paging is over and did not raise
PagingOver ==
  /\ g_pc \notin {"idle", "start", "extract", "paging"}
  /\ g_exc # "KeyError:next"

\* C12 (as claimed): a shape mismatch met while navigating an item, a node that
\* is None or a node that is missing alike, never ends extraction while
\* attempts remain: the pass is abandoned and restarted.
C12_AnyShapeMismatchRestarts ==
  (g_pc = "raised" /\ counter < max_iterations) =>
    g_exc \notin {"KeyError:album", "IndexError"}

\* C13: the retry loop ends after at most max_iterations passes: a pass starts
\* only as the first one or after an aborted one, and only while fewer than
\* max_iterations passes were started; no pass starts after a clean pass; every
\* aborted pass is followed at once by one backoff of BackoffSeconds, so the
\* seconds slept are BackoffSeconds times the aborted passes.
C13_PassesBounded ==
  /\ counter <= max_iterations
  /\ passes <= max_iterations
  /\ slept = BackoffSeconds * (counter + IF g_pc = "sleep" THEN 1 ELSE 0)
  /\ g_pc = "while" => passes = counter
  /\ g_pc \in {"for", "after_for", "sleep"} => passes = counter + 1
  /\ g_pc = "sleep" => error # "None"
  /\ (g_pc \in {"frame", "codes", "done"} \/ ExtractionEnded) =>
       IF error = "None"
         THEN passes = counter + 1
         ELSE passes = max_iterations /\ counter = max_iterations
  /\ (g_pc = "raised" /\ g_exc \in {"ZeroDivisionError", "KeyError:album", "IndexError"}) =>
       passes = counter + 1

C13_PassStep ==
  /\ passes' # passes =>
       /\ passes' = passes + 1
       /\ passes < max_iterations
       /\ g_pc = "while"
       /\ passes = 0 \/ error # "None"
  /\ (g_pc = "after_for" /\ error # "None") =>
       /\ g_pc' = "sleep"
       /\ slept' = slept + BackoffSeconds
       /\ passes' = passes
  /\ (g_pc = "after_for" /\ error = "None") =>
       /\ g_pc' = "frame"
       /\ slept' = slept
  /\ slept' # slept => g_pc = "after_for"
  /\ g_pc \in {"frame", "codes", "done", "raised"} => passes' = passes

C13_RetryLoopTerminates == [](C13_PassesBounded) /\ [][C13_PassStep]_vars

C13_Witness ==
  /\ g_pc = "frame"
  /\ error # "None"
  /\ counter = max_iterations
  /\ passes = max_iterations
  /\ slept = BackoffSeconds * max_iterations

\* C14: the item list is fetched once: a page is requested, and items changes,
\* only before the first pass starts; no page is requested twice; every pass
\* iterates the concatenation of the pages fetched before the first pass.
C14_FetchStep ==
  /\ (fetched' # fetched \/ items' # items \/ response' # response) =>
       (passes = 0 /\ passes' = 0)
  /\ \A a, b \in 1..Len(fetched') : fetched'[a] = fetched'[b] => a = b
  /\ passes' >= 1 =>
       /\ items' = AllItems(source, Len(fetched'))
       /\ n_tracks' = Len(items')

C14_ItemListFetchedOnce == [][C14_FetchStep]_vars

C14_Witness ==
  /\ g_pc = "for"
  /\ passes = 2
  /\ idx >= 1
  /\ Len(source) = 2
  /\ fetched = <<1, 2>>
  /\ items = <<1, 2, 3>>

\* C16 (as claimed): for a playlist whose pagination yields zero items the
\* extraction does not raise, progress reporting included, and sets
\* self.playlist to the table with the six columns and no rows.
C16_EmptyPlaylistCompletes ==
  (PagingOver /\ Len(items) = 0) =>
    /\ g_exc # "ZeroDivisionError"
    /\ g_pc \in {"codes", "done"} => PlaylistIs(<<>>)

\* ------------------------------------------------ properties of CardDeck
\* the constructor has returned or raised
ConstructionEnded == d_pc \notin {"new", "split", "loop", "store"}

\* the constructor has returned
Constructed == self_batches # <<>>

\* the cards of all batches, one after the other
RECURSIVE Flatten(_)
Flatten(bs) == IF bs = <<>> THEN <<>> ELSE Head(bs) \o Flatten(Tail(bs))

\* a card with exactly the destination fields as keys and '' for each of them
IsPlaceholder(card) ==
  /\ DOMAIN card = {template_fields[i] : i \in 1..Len(template_fields)}
  /\ \A f \in DOMAIN card : card[f] = ""

\* the file name ends in ".html" in some mix of upper and lower case
EndsHtmlAnyCase(fn) ==
  /\ Len(fn) >= 5
  /\ fn[Len(fn) - 4] = "."
  /\ fn[Len(fn) - 3] \in {"h", "H"}
  /\ fn[Len(fn) - 2] \in {"t", "T"}
  /\ fn[Len(fn) - 1] \in {"m", "M"}
  /\ fn[Len(fn)] \in {"l", "L"}

\* C1 (as claimed): for every batch_size >= 1 and every record count n >= 0,
\* n = 0 included, construction completes with n_batches = ceil(n / batch_size)
\* and batches of exactly batch_size cards each, the cards after the n-th being
\* placeholders.
C1_ConstructionCompletesForEveryCount ==
  (ConstructionEnded /\ Len(content_columns) = Len(template_fields)) =>
    /\ Constructed
    /\ n_batches * batch_size >= Len(data)
    /\ (n_batches - 1) * batch_size < Len(data) \/ (n_batches = 0 /\ Len(data) = 0)
    /\ Len(self_batches[1]) = n_batches
    /\ \A k \in 1..Len(self_batches[1]) : Len(self_batches[1][k]) = batch_size
    /\ \A p \in 1..Len(Flatten(self_batches[1])) :
         p > Len(data) => IsPlaceholder(Flatten(self_batches[1])[p])

\* C4: with len(content_columns) # len(template_fields) the constructor raises
\* the configuration error and no batching step ever runs: the table is never
\* split, no card is built, self.batches is never set.
C4_MismatchFailsBeforeBatching ==
  Len(content_columns) # Len(template_fields) =>
    /\ d_pc \in {"new", "raised"}
    /\ d_pc = "raised" => d_exc = "ValueError:lengths"
    /\ batched_data = <<>>
    /\ batches = <<>>
    /\ self_batches = <<>>

C4_Witness ==
  /\ Len(content_columns) # Len(template_fields)
  /\ Len(data) >= 1
  /\ d_pc = "raised"
  /\ d_exc = "ValueError:lengths"

\* C5: create_cards raises the configuration error exactly for the file names
\* that do not end in ".html" in some letter case, and then nothing was rendered
\* and no file was opened; every other name passes the check, and a file is
\* written only with the text rendered before.
C5_ExtensionCheckedBeforeAnyOutput ==
  /\ d_exc = "ValueError:extension" =>
       ~EndsHtmlAnyCase(filename) /\ output = <<>> /\ page = <<>>
  /\ (d_pc \in {"render", "write", "done"} \/ d_exc = "TemplateError") =>
       EndsHtmlAnyCase(filename)
  /\ (d_pc = "raised" /\ Constructed /\ EndsHtmlAnyCase(filename)) =>
       d_exc = "TemplateError"
  /\ d_pc = "render" => output = <<>> /\ page = <<>>
  /\ d_pc = "write" => output # <<>> /\ page = <<>>
  /\ d_pc = "done" => output = <<self_batches[1]>> /\ page = output

C5_Witness ==
  /\ d_pc = "done"
  /\ filename = <<"C", ".", "H", "T", "M", "L">>
  /\ page # <<>>

\* C6 (as claimed): the card of every record pairs template_fields[i] with
\* record[content_columns[i]] for every index i, also when a destination field
\* name occurs more than once.
C6_PositionalZipForEveryIndex ==
  Constructed =>
    \A p \in 1..Len(data) : \A i \in 1..Len(template_fields) :
      Flatten(self_batches[1])[p][template_fields[i]] = data[p][content_columns[i]]

\* C6 (amended): the card of every record is a mapping on the distinct names of
\* template_fields; it pairs template_fields[i] with record[content_columns[i]]
\* for every index i whose name does not occur again later in template_fields,
\* so a repeated name keeps the value of its last occurrence only.
C6_LastOccurrenceWins ==
  Constructed =>
    \A p \in 1..Len(data) :
      /\ DOMAIN Flatten(self_batches[1])[p] =
           {template_fields[i] : i \in 1..Len(template_fields)}
      /\ \A i \in 1..Len(template_fields) :
           (\A j \in (i + 1)..Len(template_fields) : template_fields[j] # template_fields[i])
             => Flatten(self_batches[1])[p][template_fields[i]] = data[p][content_columns[i]]

C6_Witness ==
  /\ Constructed
  /\ Len(data) >= 1
  /\ template_fields = <<"text1", "text1">>
  /\ content_columns = <<"song", "number">>
  /\ Flatten(self_batches[1])[1]["text1"] = "1"

\* C8: for n >= 1 records and batch size b the batches hold ceil(n/b)*b cards,
\* b in every batch; the ceil(n/b)*b - n cards after the n-th are placeholders
\* and lie in the last batch; when b divides n there is no card beyond the n-th.
C8_PaddingFillsLastBatch ==
  (Constructed /\ Len(data) >= 1) =>
    LET bs == self_batches[1]
        nb == Len(bs)
        n == Len(data)
        flat == Flatten(bs)
    IN /\ nb * batch_size >= n
       /\ (nb - 1) * batch_size < n
       /\ \A k \in 1..nb : Len(bs[k]) = batch_size
       /\ Len(flat) = nb * batch_size
       /\ \A p \in (n + 1)..Len(flat) :
            /\ IsPlaceholder(flat[p])
            /\ p > (nb - 1) * batch_size
       /\ n % batch_size = 0 => Len(flat) = n

C8_Witness ==
  /\ Constructed
  /\ Len(data) = 4
  /\ batch_size = 3
  /\ Len(template_fields) = 2
  /\ Len(self_batches[1]) = 2
  /\ Len(Flatten(self_batches[1])) = 6
  /\ IsPlaceholder(self_batches[1][2][2])
  /\ IsPlaceholder(self_batches[1][2][3])

\* C9: for n >= 1 records, record k*batch_size + j (0-based) is the card at
\* position j of batch k and nowhere else: every record has its one card, in
\* record order, and every batch but the last is filled with record cards.
C9_OrderAndContiguity ==
  (Constructed /\ Len(data) >= 1) =>
    LET bs == self_batches[1]
    IN /\ \A r \in 0..(Len(data) - 1) :
            LET k == r \div batch_size
                j == r % batch_size
            IN /\ k + 1 <= Len(bs)
               /\ j + 1 <= Len(bs[k + 1])
               /\ \A i \in 1..Len(template_fields) :
                    (\A l \in (i + 1)..Len(template_fields) :
                        template_fields[l] # template_fields[i])
                      => bs[k + 1][j + 1][template_fields[i]] = data[r + 1][content_columns[i]]
       /\ \A k \in 1..(Len(bs) - 1) : k * batch_size <= Len(data)
       /\ (Len(bs) - 1) * batch_size < Len(data)

C9_Witness ==
  /\ Constructed
  /\ Len(data) = 4
  /\ batch_size = 3
  /\ content_columns = <<"number", "song">>
  /\ template_fields = <<"text1", "text2">>
  /\ self_batches[1][2][1]["text1"] = "4"
  /\ self_batches[1][1][3]["text1"] = "3"

====
